---- MODULE Spec2Model ----
\* A model of the bg_ai search engine: the arena game tree and its MCTS search
\* cycle (src/ai/game_tree/mod.rs), the random rollout (src/ai/random_rollout.rs),
\* and the entry points mcts (src/ai/mcts.rs), ismcts and ismcts_mt
\* (src/ai/ismcts.rs).  The engine is generic over a game; the model runs it on a
\* small fixed game that has winners, draws, a stochastic move, a hidden-information
\* state and a stuck (action-less, outcome-less) state.
EXTENDS Integers, Sequences, FiniteSets, TLC

\* ---------------------------------------------------------------- bounds
MaxSims == 3      \* largest num_simulations tried
MaxDets == 2      \* largest num_determinizations tried
MaxSeed == 1      \* the caller brings RNG stream s at position s, s in 0..MaxSeed

None == "None"

\* ---------------------------------------------------------------- the RNG
\* An Rng value is [seed, pos]: a fixed stream (seed) and a position in it.
\* next_u32 returns the word at pos and moves one word forward.
NextU32(rng) ==
    LET x == rng.seed * 5 + rng.pos * 3 + (rng.pos * rng.pos) \div 2
    IN  (x \div 2 + x) % 8

Advance(rng) == [rng EXCEPT !.pos = @ + 1]

\* The RNGs a caller brings: stream s, of which it has already drawn s words.
CallerRngs == {[seed |-> s, pos |-> s] : s \in 0..MaxSeed}

\* ---------------------------------------------------------------- the game
Players == {"P1", "P2"}

GameStates ==
    {"R", "M", "W1", "W2", "Dr", "Dd", "E", "X", "Y", "S", "Q", "T", "U", "Z", "H", "V"}

\* State::actions
Actions(s) ==
    CASE s = "R" -> <<"a", "b">>
      [] s = "M" -> <<"a", "b">>
      [] s = "X" -> <<"a", "b">>
      [] s = "Y" -> <<"a">>
      [] s = "S" -> <<"d">>
      [] s = "Q" -> <<"a", "b">>
      [] s = "T" -> <<"a">>
      [] s = "U" -> <<"a", "b", "c">>
      [] s = "Z" -> <<"a", "b">>
      [] s = "H" -> <<"a", "b">>
      [] s = "V" -> <<"a", "b">>
      [] OTHER   -> <<>>

\* State::outcome: an Outcome is [tag, players]; Winner(p) carries <<p>>,
\* Draw(v) the Vec v as the game built it, Escape no players.  NoOutcome is the
\* None of Option<Outcome>.
Winner(p) == [tag |-> "Winner", players |-> <<p>>]
Draw(ps)  == [tag |-> "Draw", players |-> ps]
Escape    == [tag |-> "Escape", players |-> <<>>]
NoOutcome == [tag |-> "None", players |-> <<>>]

OutcomeOf(s) ==
    CASE s = "W1" -> Winner("P1")
      [] s = "W2" -> Winner("P2")
      [] s = "T"  -> Winner("P2")
      [] s = "Dr" -> Draw(<<"P1", "P2">>)
      [] s = "Dd" -> Draw(<<"P1", "P1">>)
      [] OTHER    -> NoOutcome

\* State::current_player
CurrentPlayer(s) == IF s \in {"M", "W2"} THEN "P2" ELSE "P1"

\* State::apply_action: [state, rng] after the move.  M's move b is stochastic
\* and draws one word; every other move leaves the RNG alone.
ApplyAction(s, rng, a) ==
    LET det(t) == [state |-> t, rng |-> rng]
    IN CASE s = "R" /\ a = "a" -> det("W1")
         [] s = "R" /\ a = "b" -> det("M")
         [] s = "M" /\ a = "a" -> det("W2")
         [] s = "M" /\ a = "b" ->
              [state |-> IF NextU32(rng) % 2 = 0 THEN "W1" ELSE "Dr",
               rng |-> Advance(rng)]
         [] s = "X" /\ a = "a" -> det("E")
         [] s = "X" /\ a = "b" -> det("W1")
         [] s = "Y" /\ a = "a" -> det("E")
         [] s = "S" /\ a = "d" -> det("Dr")
         [] s = "Q" /\ a = "a" -> det("Dd")
         [] s = "Q" /\ a = "b" -> det("W2")
         [] s = "T" /\ a = "a" -> det("W1")
         [] s = "U" /\ a = "a" -> det("W2")
         [] s = "U" /\ a = "b" -> det("W1")
         [] s = "U" /\ a = "c" -> det("W1")
         [] s = "Z" /\ a = "a" -> det("T")
         [] s = "Z" /\ a = "b" -> det("W2")
         [] s = "H" /\ a = "a" -> det("W1")
         [] s = "H" /\ a = "b" -> det("W2")
         [] s = "V" /\ a = "a" -> det("M")
         [] s = "V" /\ a = "b" -> det("W1")

\* Determinable::determine: H hides which of R and U the world is and draws one
\* word to sample it; every other state is fully observable.
Determine(s, rng, perspective) ==
    IF s = "H"
    THEN [state |-> IF NextU32(rng) % 2 = 0 THEN "U" ELSE "R", rng |-> Advance(rng)]
    ELSE [state |-> s, rng |-> rng]

\* ---------------------------------------------------------------- the game tree
\* A tree is [nodes, edges]: the graph's node arena and edge arena, both in
\* insertion order.  A NodeIndex is a position in nodes; the root is node 1.
RootNodeIdx == 1

\* GameTreeNode::new
NewNode(state) == [state |-> state, num_visits |-> 0, scores |-> <<>>]

\* GameTreeEdge::new
NewEdge(source, target, action) ==
    [source |-> source, target |-> target, action |-> action, num_visits |-> 1]

\* GameTree::new
NewTree(state) == [nodes |-> <<NewNode(state)>>, edges |-> <<>>]

\* GameTreeNode::get_player_score
GetPlayerScore(node, player) ==
    IF player \in DOMAIN node.scores THEN node.scores[player] ELSE 0

Reverse(s) == [i \in 1..Len(s) |-> s[Len(s) + 1 - i]]

\* Graph::edges_directed(node, Outgoing): the node's outgoing edge indices, the
\* most recently added first (the graph links each new edge at the head of its
\* source's list).
OutgoingEdges(t, n) ==
    SelectSeq(Reverse([i \in 1..Len(t.edges) |-> i]), LAMBDA i: t.edges[i].source = n)

\* Graph::edges_directed(node, Incoming), in the same head-first order.
IncomingEdges(t, n) ==
    SelectSeq(Reverse([i \in 1..Len(t.edges) |-> i]), LAMBDA i: t.edges[i].target = n)

\* GameTree::node_children
NodeChildren(t, n) ==
    LET es == OutgoingEdges(t, n) IN [i \in 1..Len(es) |-> t.edges[es[i]].target]

\* GameTree::is_leaf_node
IsLeafNode(t, n) == Len(OutgoingEdges(t, n)) = 0

\* Mutant of EdgeToParent: the direction is Outgoing instead of Incoming.
EdgeToParentOutgoing(t, n) ==
    LET es == OutgoingEdges(t, n) IN IF Len(es) = 0 THEN 0 ELSE es[1]

\* GameTree::edge_to_parent: an edge index, or 0 for None.
EdgeToParent(t, n) ==
    LET es == IncomingEdges(t, n) IN IF Len(es) = 0 THEN 0 ELSE es[1]

\* GameTree::parent_node_idx: a node index, or 0 for None.
ParentNodeIdx(t, n) ==
    LET e == EdgeToParent(t, n) IN IF e = 0 THEN 0 ELSE t.edges[e].source

\* GameTree::parent_visits
ParentVisits(t, n) ==
    LET p == ParentNodeIdx(t, n) IN IF p = 0 THEN 0 ELSE t.nodes[p].num_visits

\* ---------------------------------------------------------------- UCB1
\* f32 values are carried as integers scaled by Scale; f32::MAX and f32::MIN are
\* the two values beyond every scaled value the formula can produce.
Scale == 10000
F32Max == 1000000000
F32Min == -1000000000

\* ln(k) * Scale^2 for k = 1..16
LnTable ==
    <<0, 69314718, 109861229, 138629436, 160943791, 179175947, 194591015,
      207944154, 219722458, 230258509, 239789527, 248490665, 256494936,
      263905733, 270805020, 277258872>>

Ln(k) == IF k <= Len(LnTable) THEN LnTable[k] ELSE LnTable[Len(LnTable)]

\* floor(sqrt(x)) by bisection on [lo, hi)
RECURSIVE SqrtIn(_, _, _)
SqrtIn(x, lo, hi) ==
    IF hi - lo <= 1 THEN lo
    ELSE LET mid == (lo + hi) \div 2
         IN  IF mid * mid <= x THEN SqrtIn(x, mid, hi) ELSE SqrtIn(x, lo, mid)

Sqrt(x) == SqrtIn(x, 0, 32768)

\* constant_of_exploration: 2f32.sqrt(), scaled
ConstantOfExploration == 14142

\* Mutant of UcbtValue: an unvisited node is worth 0 instead of f32::MAX.
UcbtValueUnvisitedZero(t, n, perspective_player) ==
    IF t.nodes[n].num_visits = 0 THEN 0
    ELSE (GetPlayerScore(t.nodes[n], perspective_player) * Scale) \div t.nodes[n].num_visits
         + (ConstantOfExploration
              * Sqrt(Ln(ParentVisits(t, n) + 1) \div t.nodes[n].num_visits)) \div Scale

\* GameTree::ucbt_value
UcbtValue(t, n, perspective_player) ==
    LET node == t.nodes[n] IN
    IF node.num_visits = 0 THEN F32Max
    ELSE LET player_score == GetPlayerScore(node, perspective_player)
             exploitation_component == (player_score * Scale) \div node.num_visits
             parent_visits == ParentVisits(t, n)
             exploration_component ==
                 (ConstantOfExploration
                    * Sqrt(Ln(parent_visits + 1) \div node.num_visits)) \div Scale
         IN  exploitation_component + exploration_component

\* GameTree::select: the fold keeps the first child whose value is strictly
\* greater than everything before it; 0 stands for the panic on no children.
RECURSIVE SelectFold(_, _, _, _, _, _)
SelectFold(t, children, i, perspective_player, best, bestUcb) ==
    IF i > Len(children) THEN best
    ELSE LET ucb == UcbtValue(t, children[i], perspective_player)
         IN  IF ucb > bestUcb
             THEN SelectFold(t, children, i + 1, perspective_player, children[i], ucb)
             ELSE SelectFold(t, children, i + 1, perspective_player, best, bestUcb)

Select(t, n, perspective_player) ==
    SelectFold(t, NodeChildren(t, n), 1, perspective_player, 0, F32Min)

\* ---------------------------------------------------------------- rollout
\* SliceRandom::choose on a non-empty slice draws one word for the index; on an
\* empty slice it returns None and draws nothing.
RECURSIVE RandomRollout(_, _)
RandomRollout(game, rng) ==
    IF OutcomeOf(game) # NoOutcome THEN [outcome |-> OutcomeOf(game), rng |-> rng]
    ELSE LET actions == Actions(game) IN
         IF Len(actions) = 0 THEN [outcome |-> Escape, rng |-> rng]
         ELSE LET action == actions[(NextU32(rng) % Len(actions)) + 1]
                  next == ApplyAction(game, Advance(rng), action)
              IN  RandomRollout(next.state, next.rng)

\* ---------------------------------------------------------------- search
\* GameTree::expand, past its panic on an empty action list: one new node and
\* one new edge per action, in action order, each successor drawn with the RNG.
RECURSIVE ExpandFrom(_, _, _, _, _)
ExpandFrom(t, rng, n, actions, i) ==
    IF i > Len(actions) THEN [tree |-> t, rng |-> rng]
    ELSE LET next == ApplyAction(t.nodes[n].state, rng, actions[i])
             new_node_idx == Len(t.nodes) + 1
             t2 == [nodes |-> Append(t.nodes, NewNode(next.state)),
                    edges |-> Append(t.edges, NewEdge(n, new_node_idx, actions[i]))]
         IN  ExpandFrom(t2, next.rng, n, actions, i + 1)

Expand(t, rng, n) == ExpandFrom(t, rng, n, Actions(t.nodes[n].state), 1)

\* entry(player).or_insert(0) += 1.0
AddScore(scores, player) ==
    [q \in DOMAIN scores \cup {player} |->
        IF q = player
        THEN (IF player \in DOMAIN scores THEN scores[player] ELSE 0) + 1
        ELSE scores[q]]

\* Mutant of AddScores: a draw credits only the first player it names.
AddScoresFirstOnly(scores, players, i) ==
    IF Len(players) = 0 THEN scores ELSE AddScore(scores, players[1])

RECURSIVE AddScores(_, _, _)
AddScores(scores, players, i) ==
    IF i > Len(players) THEN scores
    ELSE AddScores(AddScore(scores, players[i]), players, i + 1)

\* Mutant of VisitNode: the Draw arm counts the visit on the edge to the parent
\* as the Winner arm does.
VisitNodeCountsDrawOnEdge(t, n, outcome) ==
    [nodes |-> [t.nodes EXCEPT ![n] =
                   [@ EXCEPT !.num_visits = @ + 1,
                             !.scores = AddScores(@, outcome.players, 1)]],
     edges |-> IF outcome.tag \in {"Winner", "Draw"} /\ EdgeToParent(t, n) # 0
               THEN [t.edges EXCEPT ![EdgeToParent(t, n)] =
                        [@ EXCEPT !.num_visits = @ + 1]]
               ELSE t.edges]

\* Mutant of VisitNode: the Escape arm leaves the node as it was, its visit
\* uncounted.
VisitNodeSkipEscape(t, n, outcome) ==
    IF outcome.tag = "Escape" THEN t
    ELSE [nodes |-> [t.nodes EXCEPT ![n] =
                        [@ EXCEPT !.num_visits = @ + 1,
                                  !.scores = AddScores(@, outcome.players, 1)]],
          edges |-> IF outcome.tag = "Winner" /\ EdgeToParent(t, n) # 0
                    THEN [t.edges EXCEPT ![EdgeToParent(t, n)] =
                             [@ EXCEPT !.num_visits = @ + 1]]
                    ELSE t.edges]

\* Mutant of VisitNode: the visit is counted once before the match and once
\* more in the Winner arm.
VisitNodeCountsWinnerTwice(t, n, outcome) ==
    [nodes |-> [t.nodes EXCEPT ![n] =
                   [@ EXCEPT !.num_visits =
                                 @ + (IF outcome.tag = "Winner" THEN 2 ELSE 1),
                             !.scores = AddScores(@, outcome.players, 1)]],
     edges |-> IF outcome.tag = "Winner" /\ EdgeToParent(t, n) # 0
               THEN [t.edges EXCEPT ![EdgeToParent(t, n)] =
                        [@ EXCEPT !.num_visits = @ + 1]]
               ELSE t.edges]

\* The body of back_propagate's loop for one visited node.
VisitNode(t, n, outcome) ==
    LET node == t.nodes[n]
        scores2 ==
            CASE outcome.tag = "Winner" -> AddScore(node.scores, outcome.players[1])
              [] outcome.tag = "Draw"   -> AddScores(node.scores, outcome.players, 1)
              [] OTHER                  -> node.scores
        nodes2 == [t.nodes EXCEPT ![n] =
                      [@ EXCEPT !.num_visits = @ + 1, !.scores = scores2]]
        e == EdgeToParent(t, n)
        edges2 ==
            IF outcome.tag = "Winner" /\ e # 0
            THEN [t.edges EXCEPT ![e] = [@ EXCEPT !.num_visits = @ + 1]]
            ELSE t.edges
    IN  [nodes |-> nodes2, edges |-> edges2]

\* Mutant of BackPropagate: only the last node of the visited path is updated.
BackPropagateLeafOnly(t, visited_nodes, outcome, i) ==
    IF Len(visited_nodes) = 0 THEN t
    ELSE VisitNode(t, visited_nodes[Len(visited_nodes)], outcome)

\* GameTree::back_propagate
RECURSIVE BackPropagate(_, _, _, _)
BackPropagate(t, visited_nodes, outcome, i) ==
    IF i > Len(visited_nodes) THEN t
    ELSE BackPropagate(VisitNode(t, visited_nodes[i], outcome), visited_nodes,
                       outcome, i + 1)

\* The selection loop of search: descend from the root while the current node
\* has children; the path walked, root first.
RECURSIVE Descend(_, _, _)
Descend(t, visited_nodes, perspective_player) ==
    LET current_node_idx == visited_nodes[Len(visited_nodes)] IN
    IF IsLeafNode(t, current_node_idx) THEN visited_nodes
    ELSE Descend(t, Append(visited_nodes, Select(t, current_node_idx, perspective_player)),
                 perspective_player)

\* GameTree::search after expand: select among the new children, roll out from
\* the expanded node's state, back-propagate.
SearchExpanded(ex, path, current_node_idx, perspective_player, new_node_idx, ro) ==
    [tree |-> BackPropagate(ex.tree, Append(path, new_node_idx), ro.outcome, 1),
     rng |-> ro.rng, panicked |-> FALSE,
     visited_nodes |-> Append(path, new_node_idx), outcome |-> ro.outcome]

\* Mutant of SearchLeaf: the leaf's actions are looked at before its outcome, so
\* a terminal leaf that lists actions is expanded.
SearchLeafActionsFirst(t, rng, path, current_node_idx, perspective_player, leaf_state, outcome) ==
    IF Len(Actions(leaf_state)) > 0
    THEN SearchExpanded(Expand(t, rng, current_node_idx), path, current_node_idx,
                        perspective_player,
                        Select(Expand(t, rng, current_node_idx).tree, current_node_idx,
                               perspective_player),
                        RandomRollout(leaf_state, Expand(t, rng, current_node_idx).rng))
    ELSE IF outcome # NoOutcome
    THEN [tree |-> BackPropagate(t, path, outcome, 1), rng |-> rng,
          panicked |-> FALSE, visited_nodes |-> path, outcome |-> outcome]
    ELSE [tree |-> t, rng |-> rng, panicked |-> TRUE, visited_nodes |-> path,
          outcome |-> NoOutcome]

\* GameTree::search at the leaf the selection loop ended on: a terminal leaf's
\* own outcome is back-propagated; any other leaf is expanded (a panic when it
\* has no actions, leaving the tree and the RNG as they were).
SearchLeaf(t, rng, path, current_node_idx, perspective_player, leaf_state, outcome) ==
    IF outcome # NoOutcome
    THEN [tree |-> BackPropagate(t, path, outcome, 1), rng |-> rng,
          panicked |-> FALSE, visited_nodes |-> path, outcome |-> outcome]
    ELSE IF Len(Actions(leaf_state)) = 0
    THEN [tree |-> t, rng |-> rng, panicked |-> TRUE, visited_nodes |-> path,
          outcome |-> NoOutcome]
    ELSE LET ex == Expand(t, rng, current_node_idx)
         IN  SearchExpanded(ex, path, current_node_idx, perspective_player,
                            Select(ex.tree, current_node_idx, perspective_player),
                            RandomRollout(leaf_state, ex.rng))

\* Mutant of SearchPath: the outcome consulted is the root state's, not the
\* leaf's.
SearchPathRootOutcome(t, rng, path, perspective_player) ==
    SearchLeaf(t, rng, path, path[Len(path)], perspective_player,
               t.nodes[path[Len(path)]].state,
               OutcomeOf(t.nodes[RootNodeIdx].state))

SearchPath(t, rng, path, perspective_player) ==
    SearchLeaf(t, rng, path, path[Len(path)], perspective_player,
               t.nodes[path[Len(path)]].state,
               OutcomeOf(t.nodes[path[Len(path)]].state))

\* GameTree::search: one iteration.  The result is [tree, rng, panicked,
\* visited_nodes, outcome].
Search(t, rng) ==
    SearchPath(t, rng,
               Descend(t, <<RootNodeIdx>>, CurrentPlayer(t.nodes[RootNodeIdx].state)),
               CurrentPlayer(t.nodes[RootNodeIdx].state))

\* GameTree::best_action: Iterator::max_by_key returns the last of several
\* equally maximal elements; None when the root has no children.
\* Mutant of MaxByVisits: the key is the visit count of the child's edge instead
\* of the child's own.
RECURSIVE MaxByEdgeVisits(_, _, _, _)
MaxByEdgeVisits(t, children, i, best) ==
    IF i > Len(children) THEN best
    ELSE IF best = 0
            \/ t.edges[EdgeToParent(t, children[i])].num_visits
                 >= t.edges[EdgeToParent(t, best)].num_visits
         THEN MaxByEdgeVisits(t, children, i + 1, children[i])
         ELSE MaxByEdgeVisits(t, children, i + 1, best)

\* Mutant of MaxByVisits: a later child replaces the best only when strictly
\* more visited, so the first of several maxima is kept.
RECURSIVE MaxByVisitsFirst(_, _, _, _)
MaxByVisitsFirst(t, children, i, best) ==
    IF i > Len(children) THEN best
    ELSE IF best = 0 \/ t.nodes[children[i]].num_visits > t.nodes[best].num_visits
         THEN MaxByVisitsFirst(t, children, i + 1, children[i])
         ELSE MaxByVisitsFirst(t, children, i + 1, best)

RECURSIVE MaxByVisits(_, _, _, _)
MaxByVisits(t, children, i, best) ==
    IF i > Len(children) THEN best
    ELSE IF best = 0 \/ t.nodes[children[i]].num_visits >= t.nodes[best].num_visits
         THEN MaxByVisits(t, children, i + 1, children[i])
         ELSE MaxByVisits(t, children, i + 1, best)

BestAction(t) ==
    LET most_visited == MaxByVisits(t, NodeChildren(t, RootNodeIdx), 1, 0) IN
    IF most_visited = 0 THEN None
    ELSE LET e == EdgeToParent(t, most_visited)
         IN  IF e = 0 THEN None ELSE t.edges[e].action

\* ---------------------------------------------------------------- IS-MCTS helpers
\* clone_and_advance_rng
RECURSIVE AdvanceBy(_, _)
AdvanceBy(rng, delta) == IF delta = 0 THEN rng ELSE AdvanceBy(Advance(rng), delta - 1)

\* Mutant of CloneAndAdvanceRng: the clone is returned as it is, not advanced.
CloneRngOnly(rng, delta) == rng

CloneAndAdvanceRng(rng, delta) == AdvanceBy(rng, delta)

\* The orders in which a HashMap with key set S can iterate.
Orders(S) ==
    {o \in [1..Cardinality(S) -> S] : \A i, j \in 1..Cardinality(S) : o[i] = o[j] => i = j}

\* The Score records of one root child: one per key of its score map, in the
\* map's iteration order.
ChildScores(t, child, porder) ==
    LET node == t.nodes[child]
        action == t.edges[EdgeToParent(t, child)].action
        present == SelectSeq(porder, LAMBDA q: q \in DOMAIN node.scores)
    IN  [i \in 1..Len(present) |->
            [action |-> action, player |-> present[i],
             score |-> node.scores[present[i]], num_visits |-> node.num_visits]]

\* GameTree::root_scores, the children's records flattened in child order.
RECURSIVE RootScoresFrom(_, _, _, _)
RootScoresFrom(t, children, i, porder) ==
    IF i > Len(children) THEN <<>>
    ELSE ChildScores(t, children[i], porder) \o RootScoresFrom(t, children, i + 1, porder)

RootScores(t, porder) == RootScoresFrom(t, NodeChildren(t, RootNodeIdx), 1, porder)

\* Mutant of AddRecord: a player's cell is assigned the record's score instead
\* of having it added.
AddRecordOverwrite(total, score) ==
    [a \in DOMAIN total \cup {score.action} |->
        IF a = score.action
        THEN [q \in (IF a \in DOMAIN total THEN DOMAIN total[a] ELSE {})
                       \cup {score.player} |->
                 IF q = score.player THEN score.score ELSE total[a][q]]
        ELSE total[a]]

\* One step of the aggregation loop: add a Score record into
\* total_action_scores (action -> player -> total).
AddRecord(total, score) ==
    IF score.action \in DOMAIN total
    THEN LET map == total[score.action]
             map2 == [q \in DOMAIN map \cup {score.player} |->
                         IF q = score.player
                         THEN (IF q \in DOMAIN map THEN map[q] + score.score
                               ELSE score.score)
                         ELSE map[q]]
         IN  [total EXCEPT ![score.action] = map2]
    ELSE [a \in DOMAIN total \cup {score.action} |->
             IF a = score.action THEN [q \in {score.player} |-> score.score]
             ELSE total[a]]

RECURSIVE AddRecords(_, _, _)
AddRecords(total, scores, i) ==
    IF i > Len(scores) THEN total ELSE AddRecords(AddRecord(total, scores[i]), scores, i + 1)

\* The aggregation loops of ismcts and ismcts_mt over the results list.
RECURSIVE Aggregate(_, _, _)
Aggregate(total, dets, i) ==
    IF i > Len(dets) THEN total
    ELSE Aggregate(AddRecords(total, dets[i].scores, 1), dets, i + 1)

\* Mutant of PlayerTotal: an action's total is read for whichever player its map
\* holds alone, the current player or not.
PlayerTotalAnyone(total, action, player) ==
    IF player \in DOMAIN total[action] THEN total[action][player]
    ELSE IF \E q \in DOMAIN total[action] : TRUE
         THEN total[action][CHOOSE q \in DOMAIN total[action] : TRUE]
         ELSE 0

\* a.1.get(&current_player).unwrap_or(&0f32)
PlayerTotal(total, action, player) ==
    IF player \in DOMAIN total[action] THEN total[action][player] ELSE 0

\* Mutant of MaxByScore: the comparison is of a_score with itself, always Equal,
\* so the last entry in iteration order wins whatever the scores.
RECURSIVE MaxByScoreSelfCompare(_, _, _, _, _)
MaxByScoreSelfCompare(total, order, i, current_player, best) ==
    IF i > Len(order) THEN best
    ELSE MaxByScoreSelfCompare(total, order, i + 1, current_player, order[i])

\* Iterator::max_by over the table in iteration order `order`: the last of
\* several equally maximal entries; None (the unwrap's panic) on an empty table.
RECURSIVE MaxByScore(_, _, _, _, _)
MaxByScore(total, order, i, current_player, best) ==
    IF i > Len(order) THEN best
    ELSE IF best = None
            \/ PlayerTotal(total, order[i], current_player)
                 >= PlayerTotal(total, best, current_player)
         THEN MaxByScore(total, order, i + 1, current_player, order[i])
         ELSE MaxByScore(total, order, i + 1, current_player, best)

\* Mutant of SearchN: the loop runs over 0..=iterations, one iteration too many
\* per call.
RECURSIVE SearchNInclusive(_, _, _)
SearchNInclusive(t, rng, k) ==
    IF k < 0 THEN [tree |-> t, rng |-> rng, panicked |-> FALSE]
    ELSE IF Search(t, rng).panicked
         THEN [tree |-> Search(t, rng).tree, rng |-> Search(t, rng).rng, panicked |-> TRUE]
         ELSE SearchNInclusive(Search(t, rng).tree, Search(t, rng).rng, k - 1)

\* GameTree::search_n as a function: k iterations from (t, rng), stopping at a
\* panic.
RECURSIVE SearchN(_, _, _)
SearchNext(r, k) ==
    IF r.panicked THEN [tree |-> r.tree, rng |-> r.rng, panicked |-> TRUE]
    ELSE SearchN(r.tree, r.rng, k - 1)

SearchN(t, rng, k) ==
    IF k = 0 THEN [tree |-> t, rng |-> rng, panicked |-> FALSE]
    ELSE SearchNext(Search(t, rng), k)

\* The body of ismcts's for loop as a function of the determinization index:
\* the Determinization it pushes, its score maps read in key order porder.
IsmctsDeterminization(s, rng, i, num_sims, porder) ==
    [determinization_idx |-> i,
     scores |-> RootScores(
         SearchN(NewTree(Determine(s, CloneAndAdvanceRng(rng, i), CurrentPlayer(s)).state),
                 Determine(s, CloneAndAdvanceRng(rng, i), CurrentPlayer(s)).rng,
                 num_sims).tree,
         porder)]

\* The table serial ismcts aggregates: determinizations 0..num_dets-1 in index
\* order.
IsmctsTable(s, rng, num_dets, num_sims) ==
    Aggregate(<<>>,
              [i \in 1..num_dets |->
                  IsmctsDeterminization(s, rng, i - 1, num_sims, <<"P1", "P2">>)],
              1)

\* ---------------------------------------------------------------- the game driver's step
\* Result<(), MultithreadedInformationSetGameError>: Ok(()) and the three errors
\* with what they carry.
NoErr == [tag |-> "Ok", arg |-> None]
NoAgentForPlayer(p) == [tag |-> "NoAgentForPlayer", arg |-> p]
AgentDecisionError(p) == [tag |-> "AgentDecisionError", arg |-> p]
ActionApplicationError(a) == [tag |-> "ActionApplicationError", arg |-> a]

\* State::apply_action's Result: the game refuses, with Err and nothing
\* changed, an action its state does not list.
TryApplyAction(s, rng, a) ==
    IF a \in {Actions(s)[k] : k \in DOMAIN Actions(s)}
    THEN [ok |-> TRUE, state |-> ApplyAction(s, rng, a).state,
          rng |-> ApplyAction(s, rng, a).rng]
    ELSE [ok |-> FALSE, state |-> s, rng |-> rng]

\* Whether the search of determinization i of ismcts(s, rng, .., num_sims)
\* panics.
DeterminizationPanics(s, rng, i, num_sims) ==
    SearchN(NewTree(Determine(s, CloneAndAdvanceRng(rng, i), CurrentPlayer(s)).state),
            Determine(s, CloneAndAdvanceRng(rng, i), CurrentPlayer(s)).rng,
            num_sims).panicked

\* Whether ismcts(s, rng, num_dets, num_sims) panics: in a search, or in the
\* unwrap on an empty table.
IsmctsPanics(s, rng, num_dets, num_sims) ==
    \/ \E i \in 0..(num_dets - 1) : DeterminizationPanics(s, rng, i, num_sims)
    \/ DOMAIN IsmctsTable(s, rng, num_dets, num_sims) = {}

\* What ismcts(s, rng, num_dets, num_sims) can return when it does not panic,
\* one value per iteration order of the table.
IsmctsReturns(s, rng, num_dets, num_sims) ==
    {MaxByScore(IsmctsTable(s, rng, num_dets, num_sims), order, 1, CurrentPlayer(s), None) :
        order \in Orders(DOMAIN IsmctsTable(s, rng, num_dets, num_sims))}

\* Mutant of StepDecided: the driver's state is replaced by the determinization
\* of it before apply_action's Result is looked at.
StepDecidedAssignsFirst(s, rng, current_player, action) ==
    IF action = None
    THEN [state |-> s, rng |-> rng, error |-> AgentDecisionError(current_player),
          panicked |-> FALSE]
    ELSE [state |-> IF TryApplyAction(s, rng, action).ok
                    THEN TryApplyAction(s, rng, action).state
                    ELSE Determine(s, rng, current_player).state,
          rng |-> TryApplyAction(s, rng, action).rng,
          error |-> IF TryApplyAction(s, rng, action).ok THEN NoErr
                    ELSE ActionApplicationError(action),
          panicked |-> FALSE]

\* step, from the agent's decision on: the Option it returned, then
\* apply_action on the driver's own RNG.
StepDecided(s, rng, current_player, action) ==
    IF action = None
    THEN [state |-> s, rng |-> rng, error |-> AgentDecisionError(current_player),
          panicked |-> FALSE]
    ELSE IF TryApplyAction(s, rng, action).ok
    THEN [state |-> TryApplyAction(s, rng, action).state,
          rng |-> TryApplyAction(s, rng, action).rng,
          error |-> NoErr, panicked |-> FALSE]
    ELSE [state |-> s, rng |-> TryApplyAction(s, rng, action).rng,
          error |-> ActionApplicationError(action), panicked |-> FALSE]

\* MultithreadedInformationSetGame::step: the driver's [state, rng] and the
\* Result afterwards (error = NoErr for Ok), or a panic inside decide.
Step(s, rng, ags, num_dets, num_sims) ==
    IF CurrentPlayer(s) \notin ags
    THEN {[state |-> s, rng |-> rng, error |-> NoAgentForPlayer(CurrentPlayer(s)),
           panicked |-> FALSE]}
    ELSE IF IsmctsPanics(s, rng, num_dets, num_sims)
    THEN {[state |-> s, rng |-> rng, error |-> NoErr, panicked |-> TRUE]}
    ELSE {StepDecided(s, rng, CurrentPlayer(s), action) :
             action \in IsmctsReturns(s, rng, num_dets, num_sims)}

\* ---------------------------------------------------------------- state
VARIABLES
    mode,                  \* the entry point called: "mcts", "ismcts", "ismcts_mt"
    state,                 \* the call's state argument
    rng,                   \* the caller's RNG
    num_determinizations,  \* the call's budgets
    num_simulations,
    run,                   \* 1: the first call; 2: the same call made again
    pc,                    \* the calling thread's position
    idx,                   \* determinization_idx of the for loops
    trees,                 \* the game trees built so far, in creation order
    rngs,                  \* each tree's own RNG (ismcts, ismcts_mt)
    iters,                 \* each tree's completed search iterations
    last,                  \* each tree's latest iteration: tree before, path, outcome
    wpc,                   \* each spawned worker's position (ismcts_mt)
    locks,                 \* how often each worker has locked the results mutex
    mutex,                 \* the results mutex's holder: 0 free, -1 the caller, w worker w
    determinizations,      \* the results list
    total_action_scores,   \* the aggregated table
    result,                \* "pending", "panic", None or the action returned
    prev,                  \* the RNG the caller held when the current call began,
                           \* and the first call's trees, table and result
    agents,                \* MultithreadedInformationSetGame: the players that have an agent
    gpc,                   \* the game driver's position; "idle" when no driver runs
    error                  \* the Result the driver's latest step returned

vars == <<mode, state, rng, num_determinizations, num_simulations, run, pc, idx,
          trees, rngs, iters, last, wpc, locks, mutex, determinizations,
          total_action_scores, result, prev, agents, gpc, error>>

Modes == {"mcts", "ismcts", "ismcts_mt"}

NoLast == [before |-> NewTree("E"), visited_nodes |-> <<>>, outcome |-> NoOutcome,
           panicked |-> FALSE]

LastOf(t, r) ==
    [before |-> t, visited_nodes |-> r.visited_nodes, outcome |-> r.outcome,
     panicked |-> r.panicked]

NoPrev == [rng |-> [seed |-> 0, pos |-> 0], trees |-> <<>>, total |-> <<>>,
           result |-> "pending"]

\* What a call starts from: nothing built, nothing locked.
Fresh ==
    /\ pc = "start"
    /\ idx = 0
    /\ trees = <<>>
    /\ rngs = <<>>
    /\ iters = <<>>
    /\ last = <<>>
    /\ wpc = <<>>
    /\ locks = <<>>
    /\ mutex = 0
    /\ determinizations = <<>>
    /\ total_action_scores = <<>>
    /\ result = "pending"

Init ==
    /\ mode \in Modes
    /\ state \in GameStates
    /\ rng \in CallerRngs
    /\ num_simulations \in 0..MaxSims
    /\ num_determinizations \in (IF mode = "mcts" THEN {0} ELSE 0..MaxDets)
    /\ run = 1
    /\ prev = [NoPrev EXCEPT !.rng = rng]
    /\ Fresh
    /\ agents = {}
    /\ gpc = "idle"
    /\ error = NoErr

inputs == <<mode, state, num_determinizations, num_simulations, run, prev,
            agents, gpc, error>>
workers == <<wpc, locks, mutex>>
aggregation == <<determinizations, total_action_scores>>

\* ---------------------------------------------------------------- mcts
\* build_monte_carlo_game_tree: GameTree::new(state.clone())
MctsNew ==
    /\ mode = "mcts" /\ pc = "start"
    /\ trees' = <<NewTree(state)>>
    /\ iters' = <<0>>
    /\ last' = <<NoLast>>
    /\ pc' = "search"
    /\ UNCHANGED <<inputs, rng, idx, rngs, workers, aggregation, result>>

\* The effect of an iteration that returned r (a panic ends the call).
MctsSearched(r) ==
    /\ trees' = <<r.tree>>
    /\ rng' = r.rng
    /\ last' = <<LastOf(trees[1], r)>>
    /\ IF r.panicked
       THEN pc' = "panicked" /\ result' = "panic" /\ iters' = iters
       ELSE pc' = pc /\ result' = result /\ iters' = <<iters[1] + 1>>

\* One iteration of tree.search_n(rng, num_simulations) on the caller's RNG.
MctsSearch ==
    /\ mode = "mcts" /\ pc = "search" /\ iters[1] < num_simulations
    /\ MctsSearched(Search(trees[1], rng))
    /\ UNCHANGED <<inputs, idx, rngs, workers, aggregation>>

\* mcts: tree.best_action().cloned()
MctsReturn ==
    /\ mode = "mcts" /\ pc = "search" /\ iters[1] = num_simulations
    /\ result' = BestAction(trees[1])
    /\ pc' = "done"
    /\ UNCHANGED <<inputs, rng, idx, trees, rngs, iters, last, workers, aggregation>>

\* ---------------------------------------------------------------- ismcts
\* The head of the for loop's body: clone and advance the RNG, determinize,
\* build the tree.
IsDeterminize ==
    /\ mode = "ismcts" /\ pc = "start" /\ idx < num_determinizations
    /\ LET d == Determine(state, CloneAndAdvanceRng(rng, idx), CurrentPlayer(state)) IN
        /\ trees' = Append(trees, NewTree(d.state))
        /\ rngs' = Append(rngs, d.rng)
    /\ iters' = Append(iters, 0)
    /\ last' = Append(last, NoLast)
    /\ pc' = "search"
    /\ UNCHANGED <<inputs, rng, idx, workers, aggregation, result>>

\* The effect on tree i of an iteration that returned r.
TreeSearched(i, r) ==
    /\ trees' = [trees EXCEPT ![i] = r.tree]
    /\ rngs' = [rngs EXCEPT ![i] = r.rng]
    /\ last' = [last EXCEPT ![i] = LastOf(trees[i], r)]
    /\ iters' = IF r.panicked THEN iters ELSE [iters EXCEPT ![i] = @ + 1]

IsSearched(i, r) ==
    /\ TreeSearched(i, r)
    /\ IF r.panicked
       THEN pc' = "panicked" /\ result' = "panic"
       ELSE pc' = pc /\ result' = result

\* Mutant of IsSearch: the search draws from the caller's RNG as well, as if
\* ismcts had been handed it mutably and shared it.
IsSearchOnCallerRng ==
    /\ mode = "ismcts" /\ pc = "search" /\ iters[idx + 1] < num_simulations
    /\ IsSearched(idx + 1, Search(trees[idx + 1], rngs[idx + 1]))
    /\ rng' = Search(trees[idx + 1], rngs[idx + 1]).rng
    /\ UNCHANGED <<inputs, idx, workers, aggregation>>

\* One iteration of decision_tree.search_n(&mut rng, num_simulations).
IsSearch ==
    /\ mode = "ismcts" /\ pc = "search" /\ iters[idx + 1] < num_simulations
    /\ IsSearched(idx + 1, Search(trees[idx + 1], rngs[idx + 1]))
    /\ UNCHANGED <<inputs, rng, idx, workers, aggregation>>

\* determinizations.push(Determinization { determinization_idx, scores:
\* decision_tree.root_scores() }), and the loop's increment.
IsPush ==
    /\ mode = "ismcts" /\ pc = "search" /\ iters[idx + 1] = num_simulations
    /\ \E porder \in Orders(Players) :
         determinizations' = Append(determinizations,
             [determinization_idx |-> idx, scores |-> RootScores(trees[idx + 1], porder)])
    /\ idx' = idx + 1
    /\ pc' = "start"
    /\ UNCHANGED <<inputs, rng, trees, rngs, iters, last, workers,
                   total_action_scores, result>>

\* The aggregation loop, once the for loop is over.
IsAggregate ==
    /\ mode = "ismcts" /\ pc = "start" /\ idx = num_determinizations
    /\ total_action_scores' = Aggregate(<<>>, determinizations, 1)
    /\ pc' = "select"
    /\ UNCHANGED <<inputs, rng, idx, trees, rngs, iters, last, workers,
                   determinizations, result>>

\* total_action_scores.iter().max_by(..).unwrap(), then Some(best_action): the
\* table iterates in some order of its keys; unwrap panics on an empty table.
\* Leaving the function drops ismcts_mt's guard on the results mutex.
SelectBest ==
    /\ pc = "select"
    /\ \E order \in Orders(DOMAIN total_action_scores) :
         LET best == MaxByScore(total_action_scores, order, 1, CurrentPlayer(state), None)
         IN  IF best = None
             THEN pc' = "panicked" /\ result' = "panic"
             ELSE pc' = "done" /\ result' = best
    /\ mutex' = 0
    /\ UNCHANGED <<inputs, rng, idx, trees, rngs, iters, last, wpc, locks, aggregation>>

\* ---------------------------------------------------------------- ismcts_mt
\* The spawning loop's body, run by the calling thread: clone and advance the
\* RNG, determinize, build the tree, spawn the worker that owns them.
MtSpawn ==
    /\ mode = "ismcts_mt" /\ pc = "start" /\ idx < num_determinizations
    /\ LET d == Determine(state, CloneAndAdvanceRng(rng, idx), CurrentPlayer(state)) IN
        /\ trees' = Append(trees, NewTree(d.state))
        /\ rngs' = Append(rngs, d.rng)
    /\ iters' = Append(iters, 0)
    /\ last' = Append(last, NoLast)
    /\ wpc' = Append(wpc, "search")
    /\ locks' = Append(locks, 0)
    /\ idx' = idx + 1
    /\ UNCHANGED <<inputs, rng, pc, mutex, aggregation, result>>

WorkerSearched(w, r) ==
    /\ TreeSearched(w, r)
    /\ wpc' = IF r.panicked THEN [wpc EXCEPT ![w] = "panicked"] ELSE wpc

\* Worker w: one iteration of decision_tree.search_n; a panic ends the thread.
WorkerSearch(w) ==
    /\ wpc[w] = "search" /\ iters[w] < num_simulations
    /\ WorkerSearched(w, Search(trees[w], rngs[w]))
    /\ UNCHANGED <<inputs, rng, pc, idx, locks, mutex, aggregation, result>>

\* Worker w: determinization_scores.lock().unwrap()
WorkerLock(w) ==
    /\ wpc[w] = "search" /\ iters[w] = num_simulations
    /\ mutex = 0
    /\ mutex' = w
    /\ locks' = [locks EXCEPT ![w] = @ + 1]
    /\ wpc' = [wpc EXCEPT ![w] = "locked"]
    /\ UNCHANGED <<inputs, rng, pc, idx, trees, rngs, iters, last, aggregation, result>>

\* Worker w: .push(Determinization { .. }); the guard drops with the statement
\* and the thread ends.
WorkerPush(w) ==
    /\ wpc[w] = "locked"
    /\ \E porder \in Orders(Players) :
         determinizations' = Append(determinizations,
             [determinization_idx |-> w - 1, scores |-> RootScores(trees[w], porder)])
    /\ mutex' = 0
    /\ wpc' = [wpc EXCEPT ![w] = "done"]
    /\ UNCHANGED <<inputs, rng, pc, idx, trees, rngs, iters, last, locks,
                   total_action_scores, result>>

\* Mutant of AllJoined: the threads are detached, the scope waits for none.
AllDetached == TRUE

\* Whether thread::scope may return: every spawned thread has ended.
AllJoined == \A w \in 1..Len(wpc) : wpc[w] \in {"done", "panicked"}

\* The end of thread::scope: it waits for every spawned thread and panics if
\* one of them panicked.
MtJoin ==
    /\ mode = "ismcts_mt" /\ pc = "start" /\ idx = num_determinizations
    /\ AllJoined
    /\ IF \E w \in 1..Len(wpc) : wpc[w] = "panicked"
       THEN pc' = "panicked" /\ result' = "panic"
       ELSE pc' = "joined" /\ result' = result
    /\ UNCHANGED <<inputs, rng, idx, trees, rngs, iters, last, workers, aggregation>>

\* determinizations.lock().unwrap() and the aggregation loop over the list.
MtAggregate ==
    /\ mode = "ismcts_mt" /\ pc = "joined"
    /\ mutex = 0
    /\ mutex' = -1
    /\ total_action_scores' = Aggregate(<<>>, determinizations, 1)
    /\ pc' = "select"
    /\ UNCHANGED <<inputs, rng, idx, trees, rngs, iters, last, wpc, locks,
                   determinizations, result>>

\* ---------------------------------------------------------------- the second call
\* The caller makes the same call again, with the state and the RNG it now holds.
CallAgain ==
    /\ run = 1 /\ pc \in {"done", "panicked"}
    /\ run' = 2
    /\ prev' = [rng |-> rng, trees |-> trees, total |-> total_action_scores,
                result |-> result]
    /\ pc' = "start"
    /\ idx' = 0
    /\ trees' = <<>>
    /\ rngs' = <<>>
    /\ iters' = <<>>
    /\ last' = <<>>
    /\ wpc' = <<>>
    /\ locks' = <<>>
    /\ mutex' = 0
    /\ determinizations' = <<>>
    /\ total_action_scores' = <<>>
    /\ result' = "pending"
    /\ UNCHANGED <<mode, state, rng, num_determinizations, num_simulations,
                   agents, gpc, error>>

Next ==
    \/ MctsNew
    \/ MctsSearch
    \/ MctsReturn
    \/ IsDeterminize
    \/ IsSearch
    \/ IsPush
    \/ IsAggregate
    \/ SelectBest
    \/ MtSpawn
    \/ \E w \in 1..Len(wpc) : WorkerSearch(w)
    \/ \E w \in 1..Len(wpc) : WorkerLock(w)
    \/ \E w \in 1..Len(wpc) : WorkerPush(w)
    \/ MtJoin
    \/ MtAggregate
    \/ CallAgain

Spec == Init /\ [][Next]_vars

\* ---------------------------------------------------------------- the game driver
\* MultithreadedInformationSetGame::new, and the caller's choice of run() or
\* step(); every agent is built with the same two budgets.
DriverInit ==
    /\ mode = "ismcts"
    /\ state \in GameStates
    /\ rng \in CallerRngs
    /\ num_simulations \in 0..MaxSims
    /\ num_determinizations \in 0..MaxDets
    /\ run = 1
    /\ prev = [NoPrev EXCEPT !.rng = rng]
    /\ Fresh
    /\ agents \in SUBSET Players
    /\ gpc \in {"run", "step"}
    /\ error = NoErr

search_state == <<pc, idx, trees, rngs, iters, last, wpc, locks, mutex, determinizations,
                  total_action_scores, result>>
driver_inputs == <<mode, num_determinizations, num_simulations, run, prev, agents>>

\* run: `if self.state.outcome().is_some() { break; }` and the Ok(()) after the loop.
RunBreak ==
    /\ gpc = "run"
    /\ OutcomeOf(state) # NoOutcome
    /\ gpc' = "run_ok"
    /\ UNCHANGED <<state, rng, error, driver_inputs, search_state>>

\* The effect of a step that ended as r, on the driver that called it from
\* position at.
Stepped(r, at) ==
    /\ state' = r.state
    /\ rng' = r.rng
    /\ error' = r.error
    /\ gpc' = IF r.panicked THEN "panicked" ELSE at

\* run: the call self.step() in the loop's body.
RunStep ==
    /\ gpc = "run"
    /\ OutcomeOf(state) = NoOutcome
    /\ \E r \in Step(state, rng, agents, num_determinizations, num_simulations) :
         Stepped(r, "stepped")
    /\ UNCHANGED <<driver_inputs, search_state>>

\* Where run goes on a step's Result e: `?` returns an Err at once.
RunReturns(e) == IF e # NoErr THEN "run_err" ELSE "run"

\* run: the `?` applied to the Result of step.
RunTry ==
    /\ gpc = "stepped"
    /\ gpc' = RunReturns(error)
    /\ UNCHANGED <<state, rng, error, driver_inputs, search_state>>

\* A call of step() by the driver's owner.
StepCall ==
    /\ gpc = "step"
    /\ \E r \in Step(state, rng, agents, num_determinizations, num_simulations) :
         Stepped(r, IF r.error # NoErr THEN "step_err" ELSE "step_ok")
    /\ UNCHANGED <<driver_inputs, search_state>>

DriverNext ==
    \/ RunBreak
    \/ RunStep
    \/ RunTry
    \/ StepCall

DriverSpec == DriverInit /\ [][DriverNext]_vars

\* ================================================================ claims
RootChildren(t) == NodeChildren(t, RootNodeIdx)

\* The action on the edge from the root to child c.
RootEdgeAction(t, c) ==
    LET e == CHOOSE e \in DOMAIN t.edges :
                 t.edges[e].source = RootNodeIdx /\ t.edges[e].target = c
    IN  t.edges[e].action

IsMaxVisited(t, ch, k) ==
    \A j \in 1..Len(ch) : t.nodes[ch[j]].num_visits <= t.nodes[ch[k]].num_visits

\* ---------------------------------------------------------------- C1
\* C1 as stated: an entry point returns None only when the root state has no
\* legal actions.
C1_NoneOnlyWithoutActions == result = None => Len(Actions(state)) = 0

\* C1 amended: mcts returns None only when num_simulations is 0 or the root
\* state is terminal (reports an outcome), whether or not the state has legal
\* actions; ismcts and ismcts_mt never return None.
C1_NoneOnlyUnsearchedOrTerminal ==
    result = None =>
        mode = "mcts" /\ (num_simulations = 0 \/ OutcomeOf(state) # NoOutcome)

\* mcts has returned None, after at least one iteration, for a terminal root
\* state that has a legal action.
C1_Witness ==
    /\ mode = "mcts" /\ pc = "done" /\ result = None
    /\ num_simulations > 0 /\ iters[1] = num_simulations
    /\ OutcomeOf(state) # NoOutcome /\ Len(Actions(state)) > 0

\* ---------------------------------------------------------------- C2
\* The results list is complete and holds no Score record.
NoScoreRecords ==
    /\ Len(determinizations) = num_determinizations
    /\ \A d \in DOMAIN determinizations : Len(determinizations[d].scores) = 0

\* C2: when no determinization produced a Score record, ismcts and ismcts_mt
\* return None instead of aborting.
C2_AggregationReturnsNone ==
    (mode \in {"ismcts", "ismcts_mt"} /\ pc \in {"done", "panicked"} /\ NoScoreRecords)
        => result = None

\* ---------------------------------------------------------------- C3
\* C3: in every tree, after any number of iterations, best_action() is None
\* exactly when the root has no children, and otherwise is the action on the
\* edge from the root to a child no root child is visited more often than.
C3_BestActionMostVisited ==
    \A i \in DOMAIN trees :
        /\ (BestAction(trees[i]) = None) <=> (Len(RootChildren(trees[i])) = 0)
        /\ Len(RootChildren(trees[i])) > 0 =>
             \E k \in 1..Len(RootChildren(trees[i])) :
                /\ RootEdgeAction(trees[i], RootChildren(trees[i])[k]) = BestAction(trees[i])
                /\ IsMaxVisited(trees[i], RootChildren(trees[i]), k)

\* mcts returned the action of a root child that is visited strictly more often
\* than a sibling.
C3_Witness ==
    /\ mode = "mcts" /\ pc = "done" /\ result # None
    /\ \E k, j \in 1..Len(RootChildren(trees[1])) :
          /\ RootEdgeAction(trees[1], RootChildren(trees[1])[k]) = result
          /\ trees[1].nodes[RootChildren(trees[1])[j]].num_visits
               < trees[1].nodes[RootChildren(trees[1])[k]].num_visits
          /\ trees[1].nodes[RootChildren(trees[1])[j]].num_visits > 0

\* ---------------------------------------------------------------- C4
\* The positions in child-iteration order of the most-visited root children.
MaxPositions(t) ==
    {k \in 1..Len(RootChildren(t)) : IsMaxVisited(t, RootChildren(t), k)}

MinOf(S) == CHOOSE x \in S : \A y \in S : x <= y
MaxOf(S) == CHOOSE x \in S : \A y \in S : x >= y

\* C4 as stated: best_action() returns the action of the first most-visited
\* root child in child-iteration order.
C4_FirstMaximum ==
    \A i \in DOMAIN trees :
        Len(RootChildren(trees[i])) > 0 =>
            BestAction(trees[i])
              = RootEdgeAction(trees[i], RootChildren(trees[i])[MinOf(MaxPositions(trees[i]))])

\* C4 amended: when several root children share the maximum num_visits,
\* best_action() returns the action of the last of them in child-iteration order.
C4_LastMaximum ==
    \A i \in DOMAIN trees :
        Len(RootChildren(trees[i])) > 0 =>
            BestAction(trees[i])
              = RootEdgeAction(trees[i], RootChildren(trees[i])[MaxOf(MaxPositions(trees[i]))])

\* mcts returned from a tree in which two visited root children tie for the
\* maximum.
C4_Witness ==
    /\ mode = "mcts" /\ pc = "done" /\ result # None
    /\ Cardinality(MaxPositions(trees[1])) >= 2
    /\ trees[1].nodes[RootChildren(trees[1])[1]].num_visits > 0

\* ---------------------------------------------------------------- C5
\* A state with no legal actions that reports no outcome.
Stuck(s) == OutcomeOf(s) = NoOutcome /\ Len(Actions(s)) = 0

\* Some action of s leads, for some RNG, to a stuck state.
HasStuckSuccessor(s) ==
    \E k \in 1..Len(Actions(s)) : \E r \in [seed : 0..MaxSeed, pos : 0..1] :
        Stuck(ApplyAction(s, r, Actions(s)[k]).state)

Range(f) == {f[x] : x \in DOMAIN f}

\* The leaf the selection loop of tree i's latest iteration ended on: the end of
\* the visited path, or the node before it when the iteration expanded the leaf.
LastLeaf(i) ==
    IF Len(trees[i].nodes) > Len(last[i].before.nodes)
    THEN last[i].visited_nodes[Len(last[i].visited_nodes) - 1]
    ELSE last[i].visited_nodes[Len(last[i].visited_nodes)]

\* Tree i's latest iteration counted one visit on each node of its path, on no
\* other node, and changed no score.
VisitsOnly(i) ==
    \A n \in DOMAIN trees[i].nodes :
        /\ trees[i].nodes[n].num_visits
             = (IF n <= Len(last[i].before.nodes)
                THEN last[i].before.nodes[n].num_visits ELSE 0)
               + (IF n \in Range(last[i].visited_nodes) THEN 1 ELSE 0)
        /\ trees[i].nodes[n].scores
             = (IF n <= Len(last[i].before.nodes)
                THEN last[i].before.nodes[n].scores ELSE <<>>)

\* C5 as stated: with a stuck state one step from the root, every iteration of
\* search_n completes.
C5_SearchCompletes ==
    \A i \in DOMAIN trees :
        HasStuckSuccessor(trees[i].nodes[RootNodeIdx].state) => ~last[i].panicked

\* C5 amended: an iteration whose rollout ends in Escape completes, counts one
\* visit on every node of its visited path, changes no score, and leaves
\* best_action() returning a child's action; an iteration whose selection ends
\* on a stuck tree leaf does not complete: expand panics, and only then does
\* search panic.
C5_EscapeRolloutsOnly ==
    \A i \in DOMAIN trees :
        /\ last[i].outcome = Escape =>
             /\ ~last[i].panicked
             /\ VisitsOnly(i)
             /\ BestAction(trees[i]) # None
        /\ Len(last[i].visited_nodes) > 0 =>
             (last[i].panicked <=> Stuck(last[i].before.nodes[LastLeaf(i)].state))
        /\ last[i].panicked => trees[i] = last[i].before

\* A rollout has escaped and was back-propagated along a path of two nodes in a
\* tree that had been searched before.
C5_Witness ==
    \E i \in DOMAIN trees :
        /\ last[i].outcome = Escape
        /\ Len(last[i].visited_nodes) >= 2
        /\ iters[i] >= 1
        /\ trees[i].nodes[RootNodeIdx].num_visits >= 1

\* ---------------------------------------------------------------- C6
\* C6: after k iterations on a freshly constructed tree, no node has more than
\* k visits.
C6_VisitsAtMostIterations ==
    \A i \in DOMAIN trees : \A n \in DOMAIN trees[i].nodes :
        trees[i].nodes[n].num_visits <= iters[i]

\* A tree searched MaxSims times whose root was visited in every iteration and
\* which has a node, three levels down, visited in only one.
C6_Witness ==
    \E i \in DOMAIN trees :
        /\ iters[i] = MaxSims
        /\ trees[i].nodes[RootNodeIdx].num_visits = MaxSims
        /\ \E n \in DOMAIN trees[i].nodes :
              /\ trees[i].nodes[n].num_visits = 1
              /\ ParentNodeIdx(trees[i], n) # 0
              /\ ParentNodeIdx(trees[i], ParentNodeIdx(trees[i], n)) # 0

\* ---------------------------------------------------------------- C7
\* C7: in every tree, no player's score on a node exceeds the node's visits.
C7_ScoreAtMostVisits ==
    \A i \in DOMAIN trees : \A n \in DOMAIN trees[i].nodes :
        \A p \in DOMAIN trees[i].nodes[n].scores :
            trees[i].nodes[n].scores[p] <= trees[i].nodes[n].num_visits

\* ---------------------------------------------------------------- C8
\* The actions whose total for `player` is the maximum of the table.
BestActions(total, player) ==
    {a \in DOMAIN total :
        \A b \in DOMAIN total : PlayerTotal(total, b, player) <= PlayerTotal(total, a, player)}

\* C8 as stated: a second run of ismcts with the same state, RNG and budgets
\* returns the action the first run returned, ties included.
C8_SameAction ==
    (mode = "ismcts" /\ run = 2 /\ pc = "done") => result = prev.result

\* C8 amended: two runs of ismcts with the same state, RNG state and budgets
\* build the same aggregated table, and return the same action whenever exactly
\* one action attains the current player's maximum aggregated score; when two
\* or more actions tie, the action returned follows the hash map's iteration
\* order and can differ between the runs.
C8_SameActionUnlessTied ==
    (mode = "ismcts" /\ run = 2 /\ pc = "done") =>
        /\ total_action_scores = prev.total
        /\ Cardinality(BestActions(total_action_scores, CurrentPlayer(state))) = 1
             => result = prev.result

\* A second run of ismcts over two determinizations has returned from a table of
\* at least two actions with a single best one.
C8_Witness ==
    /\ mode = "ismcts" /\ run = 2 /\ pc = "done"
    /\ num_determinizations >= 2 /\ num_simulations >= 2
    /\ Cardinality(DOMAIN total_action_scores) >= 2
    /\ Cardinality(BestActions(total_action_scores, CurrentPlayer(state))) = 1
    /\ result = prev.result

\* ---------------------------------------------------------------- C9
\* C9: whatever order the workers of ismcts_mt complete in, the table it
\* aggregates is the table serial ismcts aggregates on the same inputs.
C9_ParallelTableIsSerialTable ==
    (mode \in {"ismcts", "ismcts_mt"} /\ pc \in {"select", "done"}) =>
        total_action_scores
          = IsmctsTable(state, rng, num_determinizations, num_simulations)

\* ismcts_mt has aggregated a non-empty table from two workers of which the
\* second completed first.
C9_Witness ==
    /\ mode = "ismcts_mt" /\ pc = "select"
    /\ Len(determinizations) = 2
    /\ determinizations[1].determinization_idx = 1
    /\ determinizations[2].determinization_idx = 0
    /\ determinizations[1].scores # determinizations[2].scores
    /\ DOMAIN total_action_scores # {}

\* ---------------------------------------------------------------- C10
\* The entries of the results list pushed for determinization index i.
EntriesOf(i) ==
    {d \in DOMAIN determinizations : determinizations[d].determinization_idx = i}

\* C10: in ismcts_mt, under every interleaving, a worker locks the results
\* mutex at most once, has locked it exactly once and pushed exactly one entry
\* when it is done, and has pushed none before; and once the caller is past the
\* scope (about to aggregate, aggregating or returned) all N workers are done
\* and the list holds exactly one entry for each index 0..N-1.
C10_OneEntryPerWorkerBeforeAggregation ==
    /\ \A w \in DOMAIN wpc :
          /\ locks[w] <= 1
          /\ wpc[w] \in {"search", "panicked"} =>
                locks[w] = 0 /\ EntriesOf(w - 1) = {} /\ mutex # w
          /\ wpc[w] = "locked" =>
                locks[w] = 1 /\ EntriesOf(w - 1) = {} /\ mutex = w
          /\ wpc[w] = "done" =>
                locks[w] = 1 /\ Cardinality(EntriesOf(w - 1)) = 1 /\ mutex # w
    /\ (mode = "ismcts_mt" /\ (pc \in {"joined", "select", "done"} \/ mutex = -1)) =>
          /\ Len(wpc) = num_determinizations
          /\ \A w \in DOMAIN wpc : wpc[w] = "done"
          /\ Len(determinizations) = num_determinizations
          /\ \A i \in 0..(num_determinizations - 1) : Cardinality(EntriesOf(i)) = 1

\* The caller of ismcts_mt holds the mutex for aggregation after two workers
\* searched and pushed, the second before the first.
C10_Witness ==
    /\ mode = "ismcts_mt" /\ pc = "select" /\ mutex = -1
    /\ num_determinizations >= 2 /\ num_simulations >= 1
    /\ determinizations[1].determinization_idx = 1
    /\ determinizations[2].determinization_idx = 0
    /\ locks[1] = 1 /\ locks[2] = 1

\* ---------------------------------------------------------------- C11
\* The RNG the current call started from, and the tree and RNG that tree i's
\* search_n started from.
CallRng == IF mode = "mcts" THEN prev.rng ELSE rng

StartOf(i) ==
    IF mode = "mcts" THEN [state |-> state, rng |-> CallRng]
    ELSE Determine(state, CloneAndAdvanceRng(rng, i - 1), CurrentPlayer(state))

TreeRng(i) == IF mode = "mcts" THEN rng ELSE rngs[i]

\* search_n(a) followed by search_n(b) on what it left; a panic in the first
\* call ends both.
SearchNTwice(t, r, a, b) ==
    IF SearchN(t, r, a).panicked THEN SearchN(t, r, a)
    ELSE SearchN(SearchN(t, r, a).tree, SearchN(t, r, a).rng, b)

\* The RNG tree i is searched with, after the step.
TreeRngNext(i) == IF mode = "mcts" THEN rng' ELSE rngs'[i]

\* C11: for every tree a call creates and every split a + b of the call's
\* budget, search_n(a) followed by search_n(b) leaves the same nodes, edges,
\* visit counts, scores, edge counters and RNG position as one search_n(a + b);
\* and that is the tree and the RNG the call holds when the iteration that
\* completes the budget has run.
C11_SearchNSplits ==
    [][\A i \in DOMAIN trees' :
          /\ i \notin DOMAIN trees =>
                \A a \in 0..num_simulations :
                    SearchNTwice(trees'[i], TreeRngNext(i), a, num_simulations - a)
                      = SearchN(trees'[i], TreeRngNext(i), num_simulations)
          /\ (i \in DOMAIN trees /\ iters[i] < num_simulations
                 /\ iters'[i] = num_simulations) =>
                SearchN(NewTree(StartOf(i).state), StartOf(i).rng, num_simulations)
                  = [tree |-> trees'[i], rng |-> TreeRngNext(i), panicked |-> FALSE]]_vars

\* A tree that has completed a budget of three iterations, with edge counters
\* above their initial 1 and an RNG that has moved: the splits 1 + 2 and 2 + 1
\* are both real.
C11_Witness ==
    \E i \in DOMAIN trees :
        /\ iters[i] = 3
        /\ num_simulations = 3
        /\ Len(trees[i].nodes) >= 3
        /\ \E e \in DOMAIN trees[i].edges : trees[i].edges[e].num_visits > 1
        /\ TreeRng(i).pos > StartOf(i).rng.pos

\* ---------------------------------------------------------------- C12
RootState(t) == t.nodes[RootNodeIdx].state

\* C12: a tree whose root state already reports an outcome stays a single node
\* without edges through every iteration, its root num_visits is the number
\* of iterations completed, and best_action() is None.
C12_TerminalRootStaysAlone ==
    \A i \in DOMAIN trees :
        OutcomeOf(RootState(trees[i])) # NoOutcome =>
            /\ Len(trees[i].nodes) = 1
            /\ trees[i].edges = <<>>
            /\ trees[i].nodes[RootNodeIdx].num_visits = iters[i]
            /\ BestAction(trees[i]) = None

\* A terminal root that still lists an action, searched to the full budget.
C12_Witness ==
    \E i \in DOMAIN trees :
        /\ OutcomeOf(RootState(trees[i])) # NoOutcome
        /\ Len(Actions(RootState(trees[i]))) > 0
        /\ iters[i] = MaxSims
        /\ trees[i].nodes[RootNodeIdx].num_visits = MaxSims

\* ---------------------------------------------------------------- C13
\* C13: in a tree whose root state S has the single action d leading to a
\* draw between P1 and P2, after k >= 1 iterations the root has exactly the
\* d-child, whose num_visits is k and whose scores for P1 and for P2 are k.
C13_DrawChildScoresBoth ==
    \A i \in DOMAIN trees :
        RootState(trees[i]) = "S" /\ iters[i] >= 1 =>
            /\ Len(RootChildren(trees[i])) = 1
            /\ \A j \in DOMAIN RootChildren(trees[i]) :
                LET c == RootChildren(trees[i])[j] IN
                /\ RootEdgeAction(trees[i], c) = "d"
                /\ trees[i].nodes[c].num_visits = iters[i]
                /\ GetPlayerScore(trees[i].nodes[c], "P1") = iters[i]
                /\ GetPlayerScore(trees[i].nodes[c], "P2") = iters[i]

\* The draw has been back-propagated both after the expansion and from the
\* terminal child itself.
C13_Witness ==
    \E i \in DOMAIN trees :
        /\ RootState(trees[i]) = "S"
        /\ iters[i] = MaxSims
        /\ Len(trees[i].nodes) = 2
        /\ trees[i].nodes[2].state = "Dr"
        /\ trees[i].nodes[2].scores = [p \in {"P1", "P2"} |-> MaxSims]

\* ---------------------------------------------------------------- C14
\* The sum of the scores recorded for (action, player) in records i.. of one
\* determinization's root_scores().
RECURSIVE RecordSum(_, _, _, _)
RecordSum(scores, action, player, i) ==
    IF i > Len(scores) THEN 0
    ELSE (IF scores[i].action = action /\ scores[i].player = player
          THEN scores[i].score ELSE 0)
         + RecordSum(scores, action, player, i + 1)

\* The same sum across determinizations i.. of the results list.
RECURSIVE DeterminizationSum(_, _, _, _)
DeterminizationSum(dets, action, player, i) ==
    IF i > Len(dets) THEN 0
    ELSE RecordSum(dets[i].scores, action, player, 1)
         + DeterminizationSum(dets, action, player, i + 1)

\* The actions that appear in any determinization's root_scores().
RecordedActions(dets) ==
    UNION {{dets[i].scores[j].action : j \in DOMAIN dets[i].scores} : i \in DOMAIN dets}

\* C14: the action ismcts returns appears in some determinization's
\* root_scores(), and no recorded action has a greater sum, across the
\* determinizations, of the scores recorded for it and state.current_player()
\* (no record counting as 0).
C14_ReturnedActionMaximizesSum ==
    mode = "ismcts" /\ pc = "done" =>
        /\ result \in RecordedActions(determinizations)
        /\ \A a \in RecordedActions(determinizations) :
             DeterminizationSum(determinizations, a, CurrentPlayer(state), 1)
               <= DeterminizationSum(determinizations, result, CurrentPlayer(state), 1)

\* Two determinizations were aggregated, two actions compete, and the returned
\* one has a strictly greater sum, to which both determinizations contribute.
C14_Witness ==
    /\ mode = "ismcts" /\ pc = "done"
    /\ Len(determinizations) = 2
    /\ \E a \in RecordedActions(determinizations) :
         DeterminizationSum(determinizations, a, CurrentPlayer(state), 1)
           < DeterminizationSum(determinizations, result, CurrentPlayer(state), 1)
    /\ \A i \in 1..2 :
         RecordSum(determinizations[i].scores, result, CurrentPlayer(state), 1) > 0

\* ---------------------------------------------------------------- C15
\* Whether tree i's latest iteration expanded a leaf.
LastExpanded(i) ==
    /\ iters[i] >= 1
    /\ ~last[i].panicked
    /\ Len(trees[i].nodes) > Len(last[i].before.nodes)

\* The RNG tree i's latest iteration started with.
LastRngBefore(i) ==
    SearchN(NewTree(StartOf(i).state), StartOf(i).rng, iters[i] - 1).rng

\* The expansion the latest iteration made: the new tree and the RNG after it.
LastExpansion(i) ==
    Expand(last[i].before, LastRngBefore(i),
           last[i].visited_nodes[Len(last[i].visited_nodes) - 1])

\* C15 as stated: in an iteration that expands a leaf, the outcome that is
\* back-propagated is that of a random rollout from the state of the newly
\* selected child, the last node of the visited path.
C15_RolloutFromChild ==
    \A i \in DOMAIN trees :
        LastExpanded(i) =>
            last[i].outcome =
                RandomRollout(
                    LastExpansion(i).tree.nodes[
                        last[i].visited_nodes[Len(last[i].visited_nodes)]].state,
                    LastExpansion(i).rng).outcome

\* ---------------------------------------------------------------- C16
\* Whether node n of t has a child that was never visited.
HasUnvisitedChild(t, n) ==
    \E e \in DOMAIN t.edges :
        t.edges[e].source = n /\ t.nodes[t.edges[e].target].num_visits = 0

\* select on every node of t that has an unvisited child returns an unvisited
\* child, whoever the perspective player is.
SelectsUnvisited(t) ==
    \A n \in DOMAIN t.nodes :
        HasUnvisitedChild(t, n) =>
            \A p \in Players :
                /\ Select(t, n, p) # 0
                /\ t.nodes[Select(t, n, p)].num_visits = 0

\* C16: in every tree the searches hold, select applied to a node with an
\* unvisited child returns an unvisited child, and the child an expanding
\* iteration selected is one the expansion just created; hence no node has a
\* child visited twice next to a child never visited.
C16_UnvisitedChildFirst ==
    \A i \in DOMAIN trees :
        /\ SelectsUnvisited(trees[i])
        /\ LastExpanded(i) =>
               last[i].visited_nodes[Len(last[i].visited_nodes)]
                   \notin DOMAIN last[i].before.nodes
        /\ \A n \in DOMAIN trees[i].nodes :
             HasUnvisitedChild(trees[i], n) =>
                 \A e \in DOMAIN trees[i].edges :
                     trees[i].edges[e].source = n =>
                         trees[i].nodes[trees[i].edges[e].target].num_visits <= 1

\* A node whose first child in iteration order is visited and whose later child
\* is not: select has to pass over the visited one.
C16_Witness ==
    \E i \in DOMAIN trees : \E n \in DOMAIN trees[i].nodes :
        LET ch == NodeChildren(trees[i], n) IN
        /\ Len(ch) >= 2
        /\ trees[i].nodes[ch[1]].num_visits = 1
        /\ GetPlayerScore(trees[i].nodes[ch[1]], CurrentPlayer(RootState(trees[i]))) = 1
        /\ trees[i].nodes[ch[2]].num_visits = 0
        /\ Select(trees[i], n, CurrentPlayer(RootState(trees[i]))) = ch[2]

\* ---------------------------------------------------------------- C17
\* C17: in every tree the searches hold, a node whose state reports an outcome
\* is the source of no edge.
C17_TerminalNodesHaveNoEdges ==
    \A i \in DOMAIN trees : \A n \in DOMAIN trees[i].nodes :
        OutcomeOf(trees[i].nodes[n].state) # NoOutcome =>
            OutgoingEdges(trees[i], n) = <<>>

\* A terminal node below the root whose state still lists actions, and on which
\* the selection of a later iteration than the one that created it has ended.
C17_Witness ==
    \E i \in DOMAIN trees : \E n \in DOMAIN trees[i].nodes :
        /\ n # RootNodeIdx
        /\ OutcomeOf(trees[i].nodes[n].state) # NoOutcome
        /\ Len(Actions(trees[i].nodes[n].state)) > 0
        /\ n \in DOMAIN last[i].before.nodes
        /\ ~last[i].panicked
        /\ last[i].visited_nodes # <<>>
        /\ last[i].visited_nodes[Len(last[i].visited_nodes)] = n
        /\ IsLeafNode(trees[i], n)

\* ---------------------------------------------------------------- C18
\* Edge e's counter in tree t, or the 1 that GameTreeEdge::new gives an edge
\* that t does not have yet.
EdgeVisitsIn(t, e) == IF e \in DOMAIN t.edges THEN t.edges[e].num_visits ELSE 1

\* Whether this step is an iteration of tree i that back-propagated a Winner
\* over a path holding edge e's target.
WinnerPassesEdge(i, e) ==
    /\ iters'[i] = iters[i] + 1
    /\ last'[i].outcome.tag = "Winner"
    /\ trees'[i].edges[e].target \in Range(last'[i].visited_nodes)

\* C18: across every step, every edge counter of every tree that lives on is
\* what it was (1 for an edge the step creates), plus exactly 1 when the step
\* is an iteration back-propagating a Winner over a path that holds the edge's
\* target; iterations ending in Draw or Escape and all other steps change no
\* edge counter.
C18_EdgeCountersOnlyOnWinner ==
    [][\A i \in DOMAIN trees' :
          i \in DOMAIN trees =>
              \A e \in DOMAIN trees'[i].edges :
                  trees'[i].edges[e].num_visits =
                      EdgeVisitsIn(trees[i], e)
                        + (IF WinnerPassesEdge(i, e) THEN 1 ELSE 0)]_vars

\* An iteration has back-propagated a Winner over a path of three nodes,
\* incrementing two edges, one of them created by that iteration, while an
\* edge off the path kept its counter.
C18_Witness ==
    \E i \in DOMAIN trees :
        /\ iters[i] >= 1 /\ ~last[i].panicked
        /\ last[i].outcome.tag = "Winner"
        /\ Len(last[i].visited_nodes) = 3
        /\ \A e \in DOMAIN trees[i].edges :
             trees[i].edges[e].num_visits =
                 EdgeVisitsIn(last[i].before, e)
                   + (IF trees[i].edges[e].target \in Range(last[i].visited_nodes)
                      THEN 1 ELSE 0)
        /\ \E e \in DOMAIN trees[i].edges :
             /\ e \notin DOMAIN last[i].before.edges
             /\ trees[i].edges[e].num_visits = 2
        /\ \E e \in DOMAIN trees[i].edges :
             /\ trees[i].edges[e].target \notin Range(last[i].visited_nodes)
             /\ trees[i].edges[e].num_visits = EdgeVisitsIn(last[i].before, e)

\* ---------------------------------------------------------------- C19
\* The caller's RNG moved i words on, written out by position.
WordsOn(r, i) == [seed |-> r.seed, pos |-> r.pos + i]

\* C19: across every step of ismcts and ismcts_mt, a determinization created
\* with index i - 1 is determinized, and its tree then searched, with an RNG
\* that starts i - 1 words past the caller's position in the caller's stream;
\* and a step that moves one determinization's RNG is an iteration of that
\* determinization's search and moves no other determinization's RNG nor the
\* caller's: no RNG is shared.
C19_OwnRngAtCallerPositionPlusIndex ==
    [][mode # "mcts" =>
          /\ \A i \in DOMAIN rngs' :
                i \notin DOMAIN rngs =>
                    /\ trees'[i] = NewTree(Determine(state, WordsOn(rng, i - 1),
                                                     CurrentPlayer(state)).state)
                    /\ rngs'[i] = Determine(state, WordsOn(rng, i - 1),
                                            CurrentPlayer(state)).rng
          /\ \A i \in DOMAIN rngs' :
                i \in DOMAIN rngs /\ rngs'[i] # rngs[i] =>
                    /\ rngs'[i] = Search(trees[i], rngs[i]).rng
                    /\ rng' = rng
                    /\ \A j \in DOMAIN rngs' :
                          j # i /\ j \in DOMAIN rngs => rngs'[j] = rngs[j]]_vars

\* The second determinization of a hidden state has just been made from a
\* caller's RNG that is not at position 0: its RNG is past the index's one word
\* and the word determine drew, while the first determinization's RNG has
\* moved on in its search.
C19_Witness ==
    /\ mode # "mcts" /\ state = "H"
    /\ rng.pos = 1
    /\ Len(rngs) = 2
    /\ iters[2] = 0
    /\ rngs[2] = WordsOn(rng, 2)
    /\ rngs[1].pos > rng.pos + 1

\* ---------------------------------------------------------------- C20
\* C20: across every step of the driver, a call of step that returns an Err
\* leaves the game state as it was; run returns an Err the moment a step
\* returned one, that Err, with the state untouched; run returns an Err only
\* so; and run returns Ok only in a state whose outcome() is present.
C20_StateReplacedOnlyOnSuccess ==
    [][/\ (gpc \in {"run", "step"} /\ error' # NoErr) => state' = state
       /\ (gpc = "stepped" /\ error # NoErr) =>
              gpc' = "run_err" /\ error' = error /\ state' = state
       /\ gpc' = "run_err" => gpc = "stepped" /\ error # NoErr
       /\ gpc' = "run_ok" => OutcomeOf(state') # NoOutcome]_vars

\* run has returned an ActionApplicationError: the agent decided, on a
\* determinization, an action the hidden state does not list, and the state
\* is still the hidden one.
C20_Witness ==
    /\ gpc = "run_err"
    /\ error.tag = "ActionApplicationError"
    /\ state = "H"
    /\ error.arg \notin {Actions(state)[k] : k \in DOMAIN Actions(state)}

\* ---------------------------------------------------------------- C21
\* The sum of num_visits over the targets of edges e.. that leave node n.
RECURSIVE ChildVisitsFrom(_, _, _)
ChildVisitsFrom(t, n, e) ==
    IF e > Len(t.edges) THEN 0
    ELSE (IF t.edges[e].source = n THEN t.nodes[t.edges[e].target].num_visits ELSE 0)
         + ChildVisitsFrom(t, n, e + 1)

ChildVisits(t, n) == ChildVisitsFrom(t, n, 1)

\* The nodes of t below the root that have children.
InnerNodes(t) ==
    {n \in DOMAIN t.nodes : n # RootNodeIdx /\ ~IsLeafNode(t, n)}

\* Whether tree i has a non-terminal root and at least one completed iteration.
Searched(i) == OutcomeOf(RootState(trees[i])) = NoOutcome /\ iters[i] >= 1

\* The root's part of visit conservation.
RootVisitsConserved(i) ==
    /\ trees[i].nodes[RootNodeIdx].num_visits = iters[i]
    /\ trees[i].nodes[RootNodeIdx].num_visits = ChildVisits(trees[i], RootNodeIdx)

\* Whether n was the child selected by the iteration that created it: select
\* takes the first of the new children in iteration order.
SelectedAtCreation(t, n) == NodeChildren(t, ParentNodeIdx(t, n))[1] = n

\* C21 as stated: after k >= 1 iterations on a tree with a non-terminal root,
\* the root's num_visits is k and the sum of its children's, and every other
\* node that has children has num_visits 1 plus the sum of its children's.
C21_VisitsConservedPlusOne ==
    \A i \in DOMAIN trees :
        Searched(i) =>
            /\ RootVisitsConserved(i)
            /\ \A n \in InnerNodes(trees[i]) :
                 trees[i].nodes[n].num_visits = 1 + ChildVisits(trees[i], n)

\* C21, amended: the root's num_visits is k and the sum of its children's;
\* every other node that has children has num_visits equal to the sum of its
\* children's, plus 1 exactly when it was the child selected by the iteration
\* that created it, and plus nothing when selection first reached it later.
C21_VisitsConserved ==
    \A i \in DOMAIN trees :
        Searched(i) =>
            /\ RootVisitsConserved(i)
            /\ \A n \in InnerNodes(trees[i]) :
                 trees[i].nodes[n].num_visits =
                     ChildVisits(trees[i], n)
                       + (IF SelectedAtCreation(trees[i], n) THEN 1 ELSE 0)

\* An inner node that a later selection first reached and expanded: its
\* num_visits is the sum of its children's, with no 1 added, under a root whose
\* num_visits is the number of iterations.
C21_Witness ==
    \E i \in DOMAIN trees : \E n \in InnerNodes(trees[i]) :
        /\ Searched(i)
        /\ iters[i] >= 2
        /\ ~SelectedAtCreation(trees[i], n)
        /\ ChildVisits(trees[i], n) >= 1
        /\ trees[i].nodes[n].num_visits = ChildVisits(trees[i], n)
        /\ trees[i].nodes[RootNodeIdx].num_visits = iters[i]

\* ---------------------------------------------------------------- C22
\* C22: no step of ismcts or ismcts_mt moves the caller's RNG, which stays the
\* one the call began with; and when the same call, made again on the same
\* state with that RNG, has ended, its per-determinization trees are the trees
\* the first call built.
C22_CallerRngUntouched ==
    [][mode # "mcts" =>
          /\ rng' = rng
          /\ rng' = prev'.rng
          /\ (run' = 2 /\ pc' \in {"done", "panicked"}) => trees' = prev'.trees]_vars

\* The second call on a hidden state has ended with the two searched trees of
\* the first call, every determinization's own RNG having moved while the
\* caller's has not.
C22_Witness ==
    /\ mode # "mcts" /\ run = 2 /\ pc = "done"
    /\ state = "H"
    /\ Len(trees) = 2
    /\ trees = prev.trees
    /\ \A i \in DOMAIN trees :
         /\ Len(trees[i].nodes) >= 3
         /\ rngs[i].pos > rng.pos + i
    /\ rng = prev.rng

====
